---- MODULE Spec2Model ----
(***************************************************************************)
(* Model of the dependency container needs<Needs...> of include/needs.hpp  *)
(* and of its value-wrapper hierarchy, as used by struct A of the demo     *)
(* program (needs<IPrint, IDuck>).                                         *)
(*                                                                         *)
(* The heap maps an address to the object living there.  The container is  *)
(* the map `values`; a slot holds a wrapper (unique_ptr<base_wrapper>) or  *)
(* the null wrapper.  The caller is modelled by the actions that create,   *)
(* hand over and destroy objects.                                          *)
(***************************************************************************)
EXTENDS Integers, FiniteSets, Sequences, TLC

\* Number of objects that are ever created in one run.
MaxObj == 3

NULL == 0
Addr == 1..MaxObj

\* The declared capability types of struct A, in declaration order.
Needs == <<"IPrint", "IDuck">>
\* The types get/set are instantiated with; PrintHello is not declared.
Types == {"IPrint", "IDuck", "PrintHello"}
\* The state the PrintHello object ph is constructed with in main.
Suffix == {"World!"}

Declared == {Needs[i] : i \in DOMAIN Needs}

VARIABLES
    values,     \* needs::values : key -> wrapper held by the slot's unique_ptr
    heap,       \* address -> object (lifetime, owner kind, state, counters)
    local,      \* a wrapper the caller constructed directly, or NullW
    destroyed,  \* the container's destructor has run
    last,       \* the last call on the container or on `local`, its outcome
                \* and the kind of wrapper it removed from the slot
    expect      \* per type: what the last successful set<T> was given

vars == <<values, heap, local, destroyed, last, expect>>

----------------------------------------------------------------------------
\* <stdexcept>: the exceptions thrown and the classes they derive from.

NoExc == [type |-> "none", what |-> ""]
invalid_argument(msg) == [type |-> "std::invalid_argument", what |-> msg]
runtime_error(msg) == [type |-> "std::runtime_error", what |-> msg]

ExcBase(c) ==
    CASE c = "std::invalid_argument" -> "std::logic_error"
      [] c = "std::logic_error" -> "std::exception"
      [] c = "std::runtime_error" -> "std::exception"
      [] OTHER -> "none"

\* catch (c&) catches an exception of dynamic type t.
RECURSIVE Catches(_, _)
Catches(c, t) ==
    IF t = "none" THEN FALSE
    ELSE IF t = c THEN TRUE
    ELSE Catches(c, ExcBase(t))

----------------------------------------------------------------------------
\* Objects.

FreeCell == [st |-> "free", own |-> "none", val |-> "", dtor |-> 0,
             use_count |-> 0, held |-> 0]

NewCell(own, v, uc, held) ==
    [st |-> "live", own |-> own, val |-> v, dtor |-> 0,
     use_count |-> uc, held |-> held]

HasFree(h) == \E a \in Addr : h[a].st = "free"
Fresh(h) == CHOOSE a \in Addr :
               /\ h[a].st = "free"
               /\ \A b \in Addr : h[b].st = "free" => a <= b

Live(h) == {a \in Addr : h[a].st = "live"}

\* Runs the destructor of the object at a: the storage holds no object any
\* more; dtor counts the destructor's runs.
destroy(h, a) ==
    [h EXCEPT ![a] = [FreeCell EXCEPT !.st = "dead", !.dtor = h[a].dtor + 1]]

\* ~unique_ptr<T>
unique_ptr_dtor(h, a) == IF a = NULL THEN h ELSE destroy(h, a)

\* shared_ptr<T>(unique_ptr<T>&&): the object gets a control block.
shared_from_unique(h, a) ==
    IF a = NULL THEN h
    ELSE [h EXCEPT ![a].own = "shared", ![a].use_count = 1]

\* Copy construction of a shared_ptr<T>.
shared_ptr_copy(h, a) ==
    IF a = NULL THEN h ELSE [h EXCEPT ![a].use_count = @ + 1]

\* Faulty variant: the object is deleted whatever the number of owners.
shared_ptr_dtor_always_deletes(h, a) ==
    IF a = NULL THEN h
    ELSE destroy([h EXCEPT ![a].use_count = 0], a)

\* ~shared_ptr<T>
shared_ptr_dtor(h, a) ==
    IF a = NULL THEN h
    ELSE IF h[a].use_count = 1
         THEN destroy([h EXCEPT ![a].use_count = 0], a)
         ELSE [h EXCEPT ![a].use_count = @ - 1]

----------------------------------------------------------------------------
\* The wrapper hierarchy.

NullW == [kind |-> "null", p |-> NULL]

\* Faulty variant: the member keeps its default-constructed state
\* (PrintHello() sets the suffix to ""), the move assignment is missing.
value_wrapper_no_move(h, v) ==
    LET a == Fresh(h) IN
    [exc |-> NoExc,
     w |-> [kind |-> "value", p |-> a],
     h |-> [h EXCEPT ![a] = NewCell("inline", "", 0, 0)]]

\* value_wrapper(X v): the value is moved into the member `value`.
value_wrapper(h, v) ==
    LET a == Fresh(h) IN
    [exc |-> NoExc,
     w |-> [kind |-> "value", p |-> a],
     h |-> [h EXCEPT ![a] = NewCell("inline", v, 0, 0)]]

\* ptr_wrapper(T& v)
ptr_wrapper_ref(h, v) ==
    [exc |-> NoExc, w |-> [kind |-> "ptr", p |-> v], h |-> h]

\* Faulty variant: the null test is missing.
ptr_wrapper_unchecked(h, v) ==
    [exc |-> NoExc, w |-> [kind |-> "ptr", p |-> v], h |-> h]

\* ptr_wrapper(T* v)
ptr_wrapper(h, v) ==
    IF v # NULL
    THEN [exc |-> NoExc, w |-> [kind |-> "ptr", p |-> v], h |-> h]
    ELSE [exc |-> invalid_argument("Null raw pointer!"), w |-> NullW, h |-> h]

\* uptr_wrapper(std::unique_ptr<T> v)
uptr_wrapper(h, v) ==
    IF v # NULL
    THEN [exc |-> NoExc, w |-> [kind |-> "uptr", p |-> v], h |-> h]
    ELSE [exc |-> invalid_argument("Null unique pointer!"), w |-> NullW, h |-> h]

\* Faulty variant: the test of the shared pointer is missing.
sptr_wrapper_unchecked(h, v) ==
    [exc |-> NoExc, w |-> [kind |-> "sptr", p |-> v], h |-> h]

\* sptr_wrapper(std::shared_ptr<T> v): v is the by-value parameter, moved
\* into the member; when the constructor throws the parameter is destroyed.
sptr_wrapper(h, v) ==
    IF v # NULL
    THEN [exc |-> NoExc, w |-> [kind |-> "sptr", p |-> v], h |-> h]
    ELSE [exc |-> invalid_argument("Null shared pointer!"), w |-> NullW,
          h |-> shared_ptr_dtor(h, v)]

\* get() of the four wrappers, and tbase_wrapper::getRaw on top of it.
wrapper_get(w) == w.p
getRaw(w) == wrapper_get(w)

\* Faulty variant: the borrowing wrapper deletes what it points to.
wrapper_dtor_deletes_borrowed(h, w) ==
    CASE w.kind = "value" -> destroy(h, w.p)
      [] w.kind = "ptr" -> destroy(h, w.p)
      [] w.kind = "uptr" -> unique_ptr_dtor(h, w.p)
      [] w.kind = "sptr" -> shared_ptr_dtor(h, w.p)
      [] OTHER -> h

\* virtual ~base_wrapper(): destroys the members of the dynamic type.
wrapper_dtor(h, w) ==
    CASE w.kind = "value" -> destroy(h, w.p)
      [] w.kind = "ptr" -> h
      [] w.kind = "uptr" -> unique_ptr_dtor(h, w.p)
      [] w.kind = "sptr" -> shared_ptr_dtor(h, w.p)
      [] OTHER -> h

----------------------------------------------------------------------------
\* Type identifiers: the address of type<T>::uid, one function per type.

\* Faulty variant: the functions of two types are folded into one address.
uid_folded == [t \in Types |->
                 CASE t = "PrintHello" -> 48 [] OTHER -> 16]

uid == [t \in Types |->
          CASE t = "IPrint" -> 16 [] t = "IDuck" -> 32 [] OTHER -> 48]

type_id(T) == uid[T]

----------------------------------------------------------------------------
\* The container.

\* std::map::operator[]: inserts a null unique_ptr under a missing key.
index(m, k) == IF k \in DOMAIN m THEN m ELSE (k :> NullW) @@ m

\* needs::needs()
needs_ctor == [k \in {type_id(Needs[i]) : i \in DOMAIN Needs} |-> NullW]

\* Faulty variant: the key is returned without the count() test.
verify_type_unchecked(T) == [exc |-> NoExc, key |-> type_id(T)]

\* needs::verify_type<T>()
verify_type(T) ==
    LET key == type_id(T) IN
    IF key \in DOMAIN values
    THEN [exc |-> NoExc, key |-> key]
    ELSE [exc |-> invalid_argument("Type specified is not a need!"),
          key |-> key]

\* Faulty variant: the key is not verified, so operator[] inserts a slot
\* for a type that is not declared.
get_no_verify(X) ==
    LET key == type_id(X)
        m == index(values, key)
        ptr == m[key]
    IN IF ptr # NullW
       THEN [exc |-> NoExc, ret |-> getRaw(ptr), values |-> m]
       ELSE [exc |-> runtime_error("Need type never set!"),
             ret |-> NULL, values |-> m]

\* Faulty variant: an empty slot yields a null pointer instead of throwing.
get_null_on_empty(X) ==
    LET vt == verify_type(X) IN
    IF vt.exc # NoExc
    THEN [exc |-> vt.exc, ret |-> NULL, values |-> values]
    ELSE LET m == index(values, vt.key) IN
         [exc |-> NoExc, ret |-> getRaw(m[vt.key]), values |-> m]

\* Faulty variant: the slot's unique_ptr is released instead of read.
get_release(X) ==
    LET vt == verify_type(X) IN
    IF vt.exc # NoExc
    THEN [exc |-> vt.exc, ret |-> NULL, values |-> values]
    ELSE LET m == index(values, vt.key)
             ptr == m[vt.key]
         IN IF ptr # NullW
            THEN [exc |-> NoExc, ret |-> getRaw(ptr),
                  values |-> [m EXCEPT ![vt.key] = NullW]]
            ELSE [exc |-> runtime_error("Need type never set!"),
                  ret |-> NULL, values |-> m]

\* needs::get<X>()
get(X) ==
    LET vt == verify_type(X) IN
    IF vt.exc # NoExc
    THEN [exc |-> vt.exc, ret |-> NULL, values |-> values]
    ELSE LET m == index(values, vt.key)
             ptr == m[vt.key]
         IN IF ptr # NullW
            THEN [exc |-> NoExc, ret |-> getRaw(ptr), values |-> m]
            ELSE [exc |-> runtime_error("Need type never set!"),
                  ret |-> NULL, values |-> m]

\* Faulty variant: the old wrapper is dropped without being deleted.
reset_no_delete(m0, h, key, w) ==
    LET m == index(m0, key) IN
    [values |-> [m EXCEPT ![key] = w], heap |-> h]

\* Faulty variant: every other slot is emptied along with the assignment.
reset_clears_others(m0, h, key, w) ==
    LET m == index(m0, key) IN
    [values |-> [k \in DOMAIN m |-> IF k = key THEN w ELSE NullW],
     heap |-> wrapper_dtor(h, m[key])]

\* values[key].reset(w): the slot takes w, then the old wrapper is deleted.
reset(m0, h, key, w) ==
    LET m == index(m0, key) IN
    [values |-> [m EXCEPT ![key] = w], heap |-> wrapper_dtor(h, m[key])]

\* set<T, X>(X v)
set_value(h, T, v) ==
    LET vt == verify_type(T) IN
    IF vt.exc # NoExc
    THEN [exc |-> vt.exc, values |-> values, heap |-> h]
    ELSE LET c == value_wrapper(h, v)
             r == reset(values, c.h, vt.key, c.w)
         IN [exc |-> NoExc, values |-> r.values, heap |-> r.heap]

\* Faulty variant: the slot is emptied before the new wrapper is constructed,
\* so a throwing constructor leaves it empty.
install_reset_first(T, c) ==
    LET vt == verify_type(T) IN
    IF vt.exc # NoExc
    THEN [exc |-> vt.exc, values |-> values, heap |-> c.h0]
    ELSE IF c.exc # NoExc
         THEN LET r == reset(values, c.h, vt.key, NullW) IN
              [exc |-> c.exc, values |-> r.values, heap |-> r.heap]
         ELSE LET r == reset(values, c.h, vt.key, c.w) IN
              [exc |-> NoExc, values |-> r.values, heap |-> r.heap]

\* Faulty variant: the old wrapper is deleted before the new one is
\* constructed, so a throwing constructor leaves the slot with a deleted one.
install_delete_first(T, c) ==
    LET vt == verify_type(T) IN
    IF vt.exc # NoExc
    THEN [exc |-> vt.exc, values |-> values, heap |-> c.h0]
    ELSE IF c.exc # NoExc
         THEN [exc |-> c.exc, values |-> values,
               heap |-> wrapper_dtor(c.h, values[vt.key])]
         ELSE LET r == reset(values, c.h, vt.key, c.w) IN
              [exc |-> NoExc, values |-> r.values, heap |-> r.heap]

\* The pointer overloads: verify_type, construct the wrapper (c is the
\* constructor's outcome), reset the slot unless the constructor threw.
install(T, c) ==
    LET vt == verify_type(T) IN
    IF vt.exc # NoExc
    THEN [exc |-> vt.exc, values |-> values, heap |-> c.h0]
    ELSE IF c.exc # NoExc
         THEN [exc |-> c.exc, values |-> values, heap |-> c.h]
         ELSE LET r == reset(values, c.h, vt.key, c.w) IN
              [exc |-> NoExc, values |-> r.values, heap |-> r.heap]

\* set<T, X>(X* v)
set_Xptr(h, T, v) == install(T, [h0 |-> h] @@ ptr_wrapper(h, v))

\* set<T>(T& v)
set_ref(h, T, v) == install(T, [h0 |-> h] @@ ptr_wrapper_ref(h, v))

\* set<T>(T* v)
set_ptr(h, T, v) == install(T, [h0 |-> h] @@ ptr_wrapper(h, v))

\* set<T>(std::unique_ptr<T> v): the parameter v owns the object until it is
\* moved into the shared_ptr the sptr_wrapper is constructed from; when
\* verify_type throws, v still owns it and releases it on unwinding.
set_unique(h, T, v) ==
    install(T, [h0 |-> unique_ptr_dtor(h, v)]
               @@ sptr_wrapper(shared_from_unique(h, v), v))

\* needs::~needs(): the map destroys every slot's wrapper, in key order.
RECURSIVE destroy_slots(_, _, _)
destroy_slots(h, m, keys) ==
    IF keys = {} THEN h
    ELSE LET k == CHOOSE x \in keys : \A y \in keys : x <= y IN
         destroy_slots(wrapper_dtor(h, m[k]), m, keys \ {k})

\* Faulty variant: the slots are given up without deleting their wrappers.
needs_dtor_no_delete(h) == h

needs_dtor(h) == destroy_slots(h, values, DOMAIN values)

----------------------------------------------------------------------------
\* State.

NoSet == [mode |-> "none", addr |-> NULL, val |-> ""]
NoCall == [op |-> "none", T |-> "none", exc |-> NoExc, ret |-> NULL,
           old |-> "null"]

Init ==
    /\ values = needs_ctor
    /\ heap = [a \in Addr |-> FreeCell]
    /\ local = NullW
    /\ destroyed = FALSE
    /\ last = NoCall
    /\ expect = [t \in Types |-> NoSet]

\* What the caller can name: a null pointer or the address of a live object.
Ptrs == {NULL} \cup Live(heap)
CallerUnique == {a \in Live(heap) : heap[a].own = "unique" /\ heap[a].held = 1}
CallerShared == {a \in Live(heap) : heap[a].own = "shared" /\ heap[a].held = 1}

\* A call of a set overload with outcome r; e is what the caller handed over.
Call(op, T, r, e) ==
    /\ ~destroyed
    /\ values' = r.values
    /\ heap' = r.heap
    /\ last' = [op |-> op, T |-> T, exc |-> r.exc, ret |-> NULL,
                old |-> IF r.exc = NoExc THEN values[type_id(T)].kind
                        ELSE "null"]
    /\ expect' = IF r.exc = NoExc THEN [expect EXCEPT ![T] = e] ELSE expect
    /\ UNCHANGED <<local, destroyed>>

SetValue(T, v) ==
    /\ HasFree(heap)
    /\ Call("set_value", T, set_value(heap, T, v),
            [mode |-> "value", addr |-> NULL, val |-> v])

SetXPtr(T, v) ==
    Call("set_Xptr", T, set_Xptr(heap, T, v),
         [mode |-> "borrow", addr |-> v, val |-> ""])

SetRef(T, v) ==
    Call("set_ref", T, set_ref(heap, T, v),
         [mode |-> "borrow", addr |-> v, val |-> ""])

SetPtr(T, v) ==
    Call("set_ptr", T, set_ptr(heap, T, v),
         [mode |-> "borrow", addr |-> v, val |-> ""])

\* The caller moves its unique_ptr into the parameter and is left empty.
SetUnique(T, v) ==
    LET h == IF v = NULL THEN heap ELSE [heap EXCEPT ![v].held = 0] IN
    Call("set_unique", T, set_unique(h, T, v),
         [mode |-> "unique", addr |-> v, val |-> ""])

Get(X) ==
    /\ ~destroyed
    /\ LET r == get(X) IN
         /\ values' = r.values
         /\ last' = [op |-> "get", T |-> X, exc |-> r.exc, ret |-> r.ret,
                     old |-> "null"]
    /\ UNCHANGED <<heap, local, destroyed, expect>>

\* The container goes out of scope.
Destroy ==
    /\ ~destroyed
    /\ heap' = needs_dtor(heap)
    /\ values' = << >>
    /\ destroyed' = TRUE
    /\ last' = [NoCall EXCEPT !.op = "~needs"]
    /\ UNCHANGED <<local, expect>>

----------------------------------------------------------------------------
\* Wrappers constructed directly by the caller.

Construct(op, c) ==
    /\ local = NullW
    /\ local' = c.w
    /\ heap' = c.h
    /\ last' = [NoCall EXCEPT !.op = op, !.exc = c.exc]
    /\ UNCHANGED <<values, destroyed, expect>>

NewValueWrapper(v) ==
    /\ HasFree(heap)
    /\ Construct("value_wrapper", value_wrapper(heap, v))

NewPtrWrapperRef(v) == Construct("ptr_wrapper_ref", ptr_wrapper_ref(heap, v))

NewPtrWrapper(v) == Construct("ptr_wrapper", ptr_wrapper(heap, v))

\* The caller moves its unique_ptr in.
NewUptrWrapper(v) ==
    LET h == IF v = NULL THEN heap ELSE [heap EXCEPT ![v].held = 0] IN
    Construct("uptr_wrapper", uptr_wrapper(h, v))

\* The caller passes a copy of its shared_ptr and keeps its own.
NewSptrWrapper(v) ==
    Construct("sptr_wrapper", sptr_wrapper(shared_ptr_copy(heap, v), v))

Access ==
    /\ local # NullW
    /\ last' = [NoCall EXCEPT !.op = "access", !.ret = wrapper_get(local)]
    /\ UNCHANGED <<values, heap, local, destroyed, expect>>

DeleteWrapper ==
    /\ local # NullW
    /\ heap' = wrapper_dtor(heap, local)
    /\ local' = NullW
    /\ last' = [NoCall EXCEPT !.op = "~base_wrapper"]
    /\ UNCHANGED <<values, destroyed, expect>>

----------------------------------------------------------------------------
\* The caller's own objects and handles.

\* PrintHello ph(v): an object the caller manages itself.
NewObject(v) ==
    /\ HasFree(heap)
    /\ heap' = [heap EXCEPT ![Fresh(heap)] = NewCell("caller", v, 0, 1)]
    /\ UNCHANGED <<values, local, destroyed, last, expect>>

MakeUnique(v) ==
    /\ HasFree(heap)
    /\ heap' = [heap EXCEPT ![Fresh(heap)] = NewCell("unique", v, 0, 1)]
    /\ UNCHANGED <<values, local, destroyed, last, expect>>

MakeShared(v) ==
    /\ HasFree(heap)
    /\ heap' = [heap EXCEPT ![Fresh(heap)] = NewCell("shared", v, 1, 1)]
    /\ UNCHANGED <<values, local, destroyed, last, expect>>

\* The caller's object, or its handle on one, goes out of scope.
CallerRelease(a) ==
    /\ heap[a].st = "live"
    /\ heap[a].held = 1
    /\ LET h == [heap EXCEPT ![a].held = 0] IN
       heap' = CASE heap[a].own = "caller" -> destroy(h, a)
                 [] heap[a].own = "unique" -> unique_ptr_dtor(h, a)
                 [] heap[a].own = "shared" -> shared_ptr_dtor(h, a)
                 [] OTHER -> h
    /\ UNCHANGED <<values, local, destroyed, last, expect>>

\* The container's operations.
ContainerNext ==
    \/ \E T \in Types, v \in Suffix : SetValue(T, v)
    \/ \E T \in Types, v \in Ptrs : SetXPtr(T, v)
    \/ \E T \in Types, v \in Live(heap) : SetRef(T, v)
    \/ \E T \in Types, v \in Ptrs : SetPtr(T, v)
    \/ \E T \in Types, v \in {NULL} \cup CallerUnique : SetUnique(T, v)
    \/ \E X \in Types : Get(X)
    \/ Destroy

\* The caller's objects and owning pointers.
CallerNext ==
    \/ \E v \in Suffix : NewObject(v)
    \/ \E v \in Suffix : MakeUnique(v)
    \/ \E a \in Addr : CallerRelease(a)

\* Wrappers used on their own, and shared handles to give them.
WrapperNext ==
    \/ \E v \in Suffix : NewValueWrapper(v)
    \/ \E v \in Live(heap) : NewPtrWrapperRef(v)
    \/ \E v \in Ptrs : NewPtrWrapper(v)
    \/ \E v \in {NULL} \cup CallerUnique : NewUptrWrapper(v)
    \/ \E v \in {NULL} \cup CallerShared : NewSptrWrapper(v)
    \/ Access
    \/ DeleteWrapper
    \/ \E v \in Suffix : MakeShared(v)

Next == ContainerNext \/ CallerNext

\* A container and its caller.
Spec == Init /\ [][Next]_vars

\* The wrapper classes and their caller, without a container.
WrapperSpec == Init /\ [][WrapperNext \/ CallerNext]_vars

\* A caller that uses a container and constructs wrappers directly.
FullSpec == Init /\ [][ContainerNext \/ WrapperNext \/ CallerNext]_vars

----------------------------------------------------------------------------
\* Properties.

NotANeed == invalid_argument("Type specified is not a need!")
NeverSet == runtime_error("Need type never set!")

Populated(T) == type_id(T) \in DOMAIN values /\ values[type_id(T)] # NullW

\* p is what a set that was handed e makes get return: the inline copy of
\* the value, or the very address the caller passed.
Matches(e, p) ==
    CASE e.mode = "value" ->
             /\ p # NULL
             /\ heap[p].own = "inline"
             /\ heap[p].st = "live"
             /\ heap[p].val = e.val
      [] e.mode = "borrow" -> p = e.addr
      [] e.mode = "unique" -> p = e.addr
      [] OTHER -> FALSE

\* C1: get<T>() for a declared T on which no set<T> has succeeded throws
\* std::runtime_error "Need type never set!" and returns no pointer, whatever
\* the other slots hold: both for the get that was last called and for a get
\* called in the current state.
C1_UnsetGetThrows ==
    /\ (last.op = "get" /\ last.T \in Declared /\ expect[last.T] = NoSet)
         => (last.exc = NeverSet /\ last.ret = NULL)
    /\ \A T \in Declared :
         (~destroyed /\ expect[T] = NoSet)
           => (get(T).exc = NeverSet /\ get(T).ret = NULL)

\* The demo's last call: get<IDuck>() with IPrint set and IDuck never set.
C1_Witness ==
    /\ last.op = "get"
    /\ last.T = "IDuck"
    /\ last.exc = NeverSet
    /\ expect["IDuck"] = NoSet
    /\ expect["IPrint"] # NoSet

\* C2: round trip. After any sequence of operations, get<T>() for a declared
\* T whose last successful set<T> was handed e succeeds and returns the
\* implementation of e: a live inline copy with the value's state for a
\* by-value set, the caller's address for a borrowed or a transferred one.
C2_RoundTrip ==
    /\ (last.op = "get" /\ last.T \in Declared /\ expect[last.T] # NoSet)
         => (last.exc = NoExc /\ Matches(expect[last.T], last.ret))
    /\ \A T \in Declared :
         (~destroyed /\ expect[T] # NoSet)
           => (get(T).exc = NoExc /\ Matches(expect[T], get(T).ret))

\* A get of a by-value implementation, with the other slot set as well and
\* an object already released.
C2_Witness ==
    /\ last.op = "get"
    /\ last.exc = NoExc
    /\ expect[last.T].mode = "value"
    /\ \A T \in Declared : expect[T] # NoSet
    /\ \E a \in Addr : heap[a].st = "dead"

\* Every overload of set and get, called with the type T in the current state.
Overloads(T) ==
    {get(T).exc}
    \cup (IF HasFree(heap) THEN {set_value(heap, T, v).exc : v \in Suffix} ELSE {})
    \cup {set_Xptr(heap, T, v).exc : v \in Ptrs}
    \cup {set_ref(heap, T, v).exc : v \in Live(heap)}
    \cup {set_ptr(heap, T, v).exc : v \in Ptrs}
    \cup {set_unique(heap, T, v).exc : v \in {NULL} \cup CallerUnique}

SetOn(T) ==
    /\ ~destroyed
    /\ last'.T = T
    /\ \/ last'.op = "set_value" /\ \E v \in Suffix : SetValue(T, v)
       \/ last'.op = "set_Xptr" /\ \E v \in Ptrs : SetXPtr(T, v)
       \/ last'.op = "set_ref" /\ \E v \in Live(heap) : SetRef(T, v)
       \/ last'.op = "set_ptr" /\ \E v \in Ptrs : SetPtr(T, v)
       \/ last'.op = "set_unique"
          /\ \E v \in {NULL} \cup CallerUnique : SetUnique(T, v)

\* The wrapper owns what it points to.
Owning(w) == w.kind \in {"value", "uptr", "sptr"}

\* The step is a successful set<T> on a slot whose wrapper owns its value.
Replaces(T) ==
    /\ ~destroyed
    /\ Populated(T)
    /\ Owning(values[type_id(T)])
    /\ last'.exc = NoExc
    /\ SetOn(T)

\* C4 as stated: re-setting a populated slot whose wrapper owns its value
\* releases that value as part of the set, and get<T>() afterwards never
\* returns the replaced one.
C4_Original ==
    [][\A T \in Declared :
         Replaces(T) =>
           LET old == values[type_id(T)].p IN
           /\ heap'[old].st = "dead"
           /\ (get(T).ret)' # old]_vars

\* C4 as amended: the set releases the previous owned value, exactly once,
\* and get<T>() afterwards returns what the new set was handed; that is the
\* replaced value only when the caller handed in the replaced value's own
\* address.  A get never returns a released object unless the last set<T>
\* borrowed it.
C4_ReplaceReleases ==
    /\ [](\A T \in Declared :
            (last.op = "get" /\ last.T = T /\ last.exc = NoExc
               /\ heap[last.ret].st = "dead")
              => expect[T].mode = "borrow")
    /\ [][\A T \in Declared :
            Replaces(T) =>
              LET old == values[type_id(T)].p IN
              /\ heap'[old].st = "dead"
              /\ heap'[old].dtor = 1
              /\ (get(T).exc)' = NoExc
              /\ (get(T).ret)' = IF expect'[T].mode = "value"
                                 THEN Fresh(heap) ELSE expect'[T].addr
              /\ (expect'[T].addr # old) => (get(T).ret)' # old]_vars

\* A by-value set that replaced the wrapper of a transferred object.
C4_Witness ==
    /\ ~destroyed
    /\ last.op = "set_value"
    /\ last.exc = NoExc
    /\ last.old = "sptr"
    /\ \E a \in Addr : heap[a].st = "dead" /\ heap[a].dtor = 1

InvalidArgument(e) == Catches("std::invalid_argument", e.type)

\* The outcome r of a set<T> handed the pointer v is a success after which
\* the slot's wrapper gives back v.
SetGives(r, T, v) ==
    /\ r.exc = NoExc
    /\ wrapper_get(r.values[type_id(T)]) = v

\* The outcome c of a wrapper constructor handed the pointer v is a wrapper
\* of the given kind whose get gives back v.
Wraps(c, kind, v) ==
    /\ c.exc = NoExc
    /\ c.w.kind = kind
    /\ wrapper_get(c.w) = v

\* C5: constructing a borrowed, exclusively-owned or shared wrapper from a
\* null raw pointer or an empty unique or shared pointer, directly or
\* through set on a declared type, throws std::invalid_argument; from a
\* non-null one it succeeds, and access (get<T>() for a set) returns exactly
\* the address that was passed.  Stated of the call that was last made and
\* of every such call made in the current state.
C5_NullRejected ==
    /\ (last.op \in {"set_Xptr", "set_ref", "set_ptr", "set_unique"}
          /\ last.T \in Declared)
         => IF last.exc = NoExc
            THEN /\ expect[last.T].addr # NULL
                 /\ get(last.T).ret = expect[last.T].addr
            ELSE InvalidArgument(last.exc)
    /\ (last.op \in {"ptr_wrapper_ref", "ptr_wrapper", "uptr_wrapper",
                     "sptr_wrapper"})
         => IF last.exc = NoExc
            THEN wrapper_get(local) # NULL
            ELSE InvalidArgument(last.exc) /\ local = NullW
    /\ \A T \in Declared :
         ~destroyed =>
           /\ InvalidArgument(set_Xptr(heap, T, NULL).exc)
           /\ InvalidArgument(set_ptr(heap, T, NULL).exc)
           /\ InvalidArgument(set_unique(heap, T, NULL).exc)
           /\ \A v \in Live(heap) :
                /\ SetGives(set_Xptr(heap, T, v), T, v)
                /\ SetGives(set_ref(heap, T, v), T, v)
                /\ SetGives(set_ptr(heap, T, v), T, v)
           /\ \A v \in CallerUnique : SetGives(set_unique(heap, T, v), T, v)
    /\ InvalidArgument(ptr_wrapper(heap, NULL).exc)
    /\ InvalidArgument(uptr_wrapper(heap, NULL).exc)
    /\ InvalidArgument(sptr_wrapper(heap, NULL).exc)
    /\ \A v \in Live(heap) :
         /\ Wraps(ptr_wrapper(heap, v), "ptr", v)
         /\ Wraps(ptr_wrapper_ref(heap, v), "ptr", v)
    /\ \A v \in CallerUnique : Wraps(uptr_wrapper(heap, v), "uptr", v)
    /\ \A v \in CallerShared :
         Wraps(sptr_wrapper(shared_ptr_copy(heap, v), v), "sptr", v)

\* An empty unique_ptr was refused by set on a declared type while the caller
\* holds an exclusively-owning wrapper it constructed from a non-null one.
C5_Witness ==
    /\ last.op = "set_unique"
    /\ last.T \in Declared
    /\ Catches("std::invalid_argument", last.exc.type)
    /\ last.exc.what = "Null shared pointer!"
    /\ local.kind = "uptr"
    /\ wrapper_get(local) # NULL

\* The wrapper variant each way of passing the implementation stands for.
KindFor(mode) ==
    CASE mode = "value" -> "value"
      [] mode = "borrow" -> "ptr"
      [] mode = "unique" -> "uptr"
      [] OTHER -> "null"

\* C6: set installs the wrapper variant of the caller's ownership intent: the
\* inline Value wrapper for a bare value, the Borrowed wrapper for a raw
\* pointer or reference, the Exclusively-Owned wrapper for a unique pointer.
C6_IntentPreserved ==
    \A T \in Declared :
      (~destroyed /\ expect[T] # NoSet)
        => values[type_id(T)].kind = KindFor(expect[T].mode)

\* C7: get<X>() for a type X that is not declared throws a
\* std::runtime_error.
C7_UndeclaredGetRuntimeError ==
    (last.op = "get" /\ last.T \in Types \ Declared)
      => Catches("std::runtime_error", last.exc.type)

\* C8: get never mutates state: for every type, declared or not, slot empty
\* or populated, a get<T>() that returns or throws leaves the key set, every
\* slot's wrapper and every object as they were.
C8_GetIsPure ==
    [][(last'.op = "get" /\ \E X \in Types : Get(X))
         => /\ DOMAIN values' = DOMAIN values
            /\ \A k \in DOMAIN values : values'[k] = values[k]
            /\ \A a \in Addr : heap'[a] = heap[a]]_vars

\* A get that succeeded on one slot while the other is still empty, the map
\* holding the declared keys only.
C8_Witness ==
    /\ last.op = "get"
    /\ last.exc = NoExc
    /\ \E T \in Declared : ~Populated(T)
    /\ DOMAIN values = {type_id(T) : T \in Declared}

\* C9: every declared slot starts empty, becomes populated only by a
\* successful set on its type, and never becomes empty again while the
\* container lives; from then on get<T>() succeeds, and every further
\* successful set<T> leaves the slot holding the new wrapper only.
C9_SlotLifecycle ==
    /\ \A T \in Declared : ~Populated(T)
    /\ [][~destroyed' =>
            \A T \in Declared :
              /\ Populated(T) => Populated(T)'
              /\ (~Populated(T) /\ Populated(T)')
                   => (last'.exc = NoExc /\ SetOn(T))
              /\ Populated(T) => (get(T).exc)' = NoExc
              /\ (last'.exc = NoExc /\ SetOn(T))
                   => /\ Populated(T)'
                      /\ values'[type_id(T)].kind
                           = IF expect'[T].mode = "value" THEN "value"
                             ELSE IF expect'[T].mode = "borrow" THEN "ptr"
                             ELSE "sptr"
                      /\ (get(T).ret)' = IF expect'[T].mode = "value"
                                         THEN Fresh(heap)
                                         ELSE expect'[T].addr]_vars

\* A successful set on a populated slot, replacing a by-value wrapper by a
\* borrowing one, while the other slot is still empty.
C9_Witness ==
    /\ ~destroyed
    /\ last.op = "set_ref"
    /\ last.T \in Declared
    /\ last.exc = NoExc
    /\ last.old = "value"
    /\ Populated(last.T)
    /\ \E U \in Declared : ~Populated(U)

\* C10: a borrowed wrapper never destroys its referent: neither replacing a
\* slot that holds a borrowed pointer to an object the caller manages nor
\* destroying the container releases that object, and an object the caller
\* manages itself ends its life only by the caller's doing.
C10_BorrowedNotReleased ==
    [][/\ \A T \in Declared :
            (/\ ~destroyed
             /\ Populated(T)
             /\ values[type_id(T)].kind = "ptr"
             /\ heap[values[type_id(T)].p].st = "live"
             /\ heap[values[type_id(T)].p].held = 1
             /\ (SetOn(T) \/ (destroyed' /\ Destroy)))
              => /\ heap'[values[type_id(T)].p].st = "live"
                 /\ heap'[values[type_id(T)].p].dtor = 0
       /\ \A a \in Addr :
            (heap[a].own = "caller" /\ heap[a].st = "live"
               /\ heap'[a].st # "live")
              => CallerRelease(a)]_vars

\* The container was destroyed while a slot borrowed an object of the
\* caller, and the object is still alive.
C10_Witness ==
    /\ destroyed
    /\ \E T \in Declared :
         /\ expect[T].mode = "borrow"
         /\ heap[expect[T].addr].own = "caller"
         /\ heap[expect[T].addr].st = "live"
         /\ heap[expect[T].addr].dtor = 0

\* The keys the constructor creates: one per distinct declared type.
DeclaredKeys == {type_id(T) : T \in Declared}

\* The key set every call of set or get made in the current state leaves.
KeySetsAfter(T) ==
    {DOMAIN get(T).values}
    \cup (IF HasFree(heap)
          THEN {DOMAIN set_value(heap, T, v).values : v \in Suffix} ELSE {})
    \cup {DOMAIN set_Xptr(heap, T, v).values : v \in Ptrs}
    \cup {DOMAIN set_ref(heap, T, v).values : v \in Live(heap)}
    \cup {DOMAIN set_ptr(heap, T, v).values : v \in Ptrs}
    \cup {DOMAIN set_unique(heap, T, v).values : v \in {NULL} \cup CallerUnique}

\* C11: while the container lives, the key set of its map is exactly the set
\* of the type identifiers of the declared types, one key per distinct
\* declared type; no set or get, on a declared or an undeclared type,
\* returning or throwing, adds or removes a key.
C11_KeySetFixed ==
    ~destroyed =>
      /\ DOMAIN values = DeclaredKeys
      /\ Cardinality(DOMAIN values) = Len(Needs)
      /\ \A T \in Types : KeySetsAfter(T) = {DeclaredKeys}

\* A get of the undeclared PrintHello has thrown on a container that has a
\* populated and an empty slot.
C11_Witness ==
    /\ ~destroyed
    /\ last.op = "get"
    /\ last.T = "PrintHello"
    /\ last.exc = NotANeed
    /\ \E T \in Declared : Populated(T)
    /\ \E T \in Declared : ~Populated(T)
    /\ DOMAIN values = DeclaredKeys

\* The object at a is one the container took ownership of: the member of a
\* value_wrapper, or an object moved in through an owning pointer.
ContainerOwned(a) == heap[a].st = "live" /\ heap[a].own \in {"inline", "shared"}

\* The slots whose wrapper owns the object at a.
OwnerSlots(a) ==
    {T \in Declared : Populated(T) /\ Owning(values[type_id(T)])
                        /\ values[type_id(T)].p = a}

\* C12: a value the container took ownership of (inline value or transferred
\* owning pointer) stays alive for as long as it is the value of its slot's
\* wrapper, which is the wrapper of exactly one slot; it is released exactly
\* once, and only by a successful set on that slot or by the destruction of
\* the container; a released object is never released again; after the
\* destruction of the container none of them is left alive.
C12_OwnedScoped ==
    /\ [](/\ \A a \in Addr : heap[a].dtor <= 1
          /\ \A a \in Addr :
               ContainerOwned(a) =>
                 /\ ~destroyed
                 /\ Cardinality(OwnerSlots(a)) = 1
          /\ \A T \in Declared :
               (~destroyed /\ Populated(T) /\ Owning(values[type_id(T)]))
                 => /\ ContainerOwned(values[type_id(T)].p)
                    /\ heap[values[type_id(T)].p].dtor = 0)
    /\ [][\A a \in Addr :
            /\ (ContainerOwned(a) /\ heap'[a].st # "live")
                 => /\ heap'[a].st = "dead"
                    /\ heap'[a].dtor = 1
                    /\ \/ destroyed' /\ Destroy
                       \/ \E T \in OwnerSlots(a) : last'.exc = NoExc /\ SetOn(T)
            /\ heap[a].st = "dead" => heap'[a] = heap[a]]_vars

\* The container was destroyed while one slot held an inline value and the
\* other a transferred object; the transferred object has been released.
C12_Witness ==
    /\ destroyed
    /\ last.op = "~needs"
    /\ \E T, U \in Declared :
         /\ expect[T].mode = "value"
         /\ expect[U].mode = "unique"
         /\ heap[expect[U].addr].st = "dead"
         /\ heap[expect[U].addr].dtor = 1
    /\ \A a \in Addr : heap[a].st # "free" => heap[a].st = "dead"

\* The pointer p designates an object that has not been released.
Valid(p) == p # NULL /\ heap[p].st = "live" /\ heap[p].dtor = 0

\* The caller keeps the object at p alive: it is an object of the caller's,
\* or one that the caller's owning pointer holds, and the caller has not let
\* go of it.
CallerKeeps(p) == p # NULL /\ heap[p].held = 1

\* The wrapper w holds a valid value.
HoldsValid(w) ==
    /\ wrapper_get(w) # NULL
    /\ Owning(w) => Valid(wrapper_get(w))
    /\ (w.kind = "ptr" /\ CallerKeeps(wrapper_get(w))) => Valid(wrapper_get(w))

\* C13: every wrapper installed in a slot holds a valid value: a get<T>()
\* that returns normally returns a pointer that is not null and that
\* designates an object that has not been released, for a borrowed pointer
\* as long as the caller keeps the referent alive; a get on an empty slot
\* throws and never returns null.  Stated of the get that was last called
\* and of a get called in the current state.
C13_WrapperHoldsValid ==
    /\ (last.op = "get" /\ last.exc = NoExc) => last.ret # NULL
    /\ (last.op = "get" /\ last.ret = NULL) => last.exc # NoExc
    /\ \A T \in Declared :
         ~destroyed =>
           /\ Populated(T) => HoldsValid(values[type_id(T)])
           /\ IF get(T).exc = NoExc
              THEN /\ Populated(T)
                   /\ get(T).ret = wrapper_get(values[type_id(T)])
                   /\ get(T).ret # NULL
              ELSE /\ ~Populated(T)
                   /\ get(T).exc = NeverSet

\* A get returned the address of a transferred object while the other slot
\* borrows an object that the caller has released.
C13_Witness ==
    /\ ~destroyed
    /\ last.op = "get"
    /\ last.exc = NoExc
    /\ last.T \in Declared
    /\ values[type_id(last.T)].kind = "sptr"
    /\ Valid(last.ret)
    /\ \E U \in Declared :
         /\ Populated(U)
         /\ values[type_id(U)].kind = "ptr"
         /\ heap[values[type_id(U)].p].st = "dead"

\* The holders of the shared object at a: the caller's handle and the
\* wrapper the caller constructed.
Holders(a) ==
    heap[a].held + (IF local.kind = "sptr" /\ local.p = a THEN 1 ELSE 0)

\* The heap after a slot that holds the wrapper w is replaced by an empty one.
AfterReplace(w) ==
    LET key == type_id("IPrint") IN reset((key :> w), heap, key, NullW).heap

\* C14: a value held by a Shared wrapper lives as long as its longest
\* surviving holder.  Constructing the wrapper adds one co-owner to the
\* holders of the handle; the value is alive while the wrapper or the
\* caller's handle holds it; destroying the wrapper, replacing it in a slot,
\* or releasing the caller's handle releases the value exactly when no other
\* holder remains, and leaves it untouched otherwise.
C14_SharedLifetime ==
    /\ [](/\ \A a \in Addr :
               (heap[a].st = "live" /\ heap[a].own = "shared")
                 => /\ heap[a].use_count = Holders(a)
                    /\ heap[a].use_count >= 1
          /\ \A a \in Addr :
               (heap[a].st # "free" /\ heap[a].st # "live") => Holders(a) = 0
          /\ local.kind = "sptr"
               => /\ Valid(local.p)
                  /\ heap[local.p].own = "shared"
                  /\ AfterReplace(local)[local.p].st
                       = IF heap[local.p].held = 1 THEN "live" ELSE "dead")
    /\ [][/\ (last'.op = "sptr_wrapper" /\ last'.exc = NoExc
                /\ \E v \in CallerShared : NewSptrWrapper(v))
               => /\ local'.kind = "sptr"
                  /\ heap'[local'.p].use_count = heap[local'.p].use_count + 1
                  /\ heap'[local'.p].st = "live"
          /\ (local.kind = "sptr" /\ last'.op = "~base_wrapper"
                /\ DeleteWrapper)
               => IF heap[local.p].held = 1
                  THEN heap'[local.p]
                         = [heap[local.p] EXCEPT !.use_count = @ - 1]
                  ELSE heap'[local.p].st = "dead" /\ heap'[local.p].dtor = 1
          /\ \A a \in Addr :
               (heap[a].own = "shared" /\ heap[a].held = 1
                  /\ heap'[a].held = 0 /\ CallerRelease(a))
                 => IF local.kind = "sptr" /\ local.p = a
                    THEN heap'[a].st = "live" /\ heap'[a].use_count = 1
                    ELSE heap'[a].st = "dead" /\ heap'[a].dtor = 1]_vars

\* The caller has released its handle and the wrapper is the last holder of
\* a value that is still alive.
C14_Witness ==
    /\ local.kind = "sptr"
    /\ heap[local.p].st = "live"
    /\ heap[local.p].held = 0
    /\ heap[local.p].use_count = 1
    /\ \E a \in Addr : heap[a].st = "dead"

FailedSetOn(T) == last'.exc # NoExc /\ SetOn(T)

\* What get<U>() gives: the exception or the pointer.
GetResult(U) == <<get(U).exc, get(U).ret>>

\* The slot of U and the value its wrapper owns are as they were before the
\* step, and get<U>() gives what it gave.
SlotKept(U) ==
    /\ values'[type_id(U)] = values[type_id(U)]
    /\ Owning(values[type_id(U)])
         => heap'[values[type_id(U)].p] = heap[values[type_id(U)].p]
    /\ GetResult(U)' = GetResult(U)

\* C16: a set that fails, on a type that is not declared or with a null raw
\* pointer or an empty owning pointer, throws std::invalid_argument and
\* leaves the container unchanged: the key set and every slot's wrapper are
\* as before, the value a wrapper owns is not released, and get<U>() gives
\* for every declared U, the targeted one included, what it gave before.
C16_FailedSetNoEffect ==
    [][\A T \in Types :
         FailedSetOn(T) =>
           /\ InvalidArgument(last'.exc)
           /\ (T \in Declared =>
                 last'.op \in {"set_Xptr", "set_ptr", "set_unique"})
           /\ values' = values
           /\ expect' = expect
           /\ \A U \in Declared : SlotKept(U)]_vars

\* A set of an empty unique_ptr on a declared type has thrown and the slot
\* still owns the inline value it held.
C16_Witness ==
    /\ ~destroyed
    /\ last.op = "set_unique"
    /\ last.T \in Declared
    /\ last.exc = invalid_argument("Null shared pointer!")
    /\ values[type_id(last.T)].kind = "value"
    /\ Valid(values[type_id(last.T)].p)
    /\ expect[last.T].mode = "value"

\* C17: slot independence.  A successful set<T> changes only the slot of T:
\* the key set is as before, and for every other declared type U the slot
\* holds the same wrapper or stays empty, the value that wrapper owns is not
\* released, and get<U>() gives what it gave before the set.
C17_SlotIndependence ==
    [][\A T \in Declared :
         (last'.exc = NoExc /\ SetOn(T)) =>
           /\ DOMAIN values' = DOMAIN values
           /\ values'[type_id(T)] # NullW
           /\ \A U \in Declared \ {T} :
                /\ SlotKept(U)
                /\ expect'[U] = expect[U]]_vars

\* A set has replaced the transferred object of one slot, releasing it,
\* while the other slot still owns its inline value.
C17_Witness ==
    /\ ~destroyed
    /\ last.exc = NoExc
    /\ last.op \in {"set_value", "set_Xptr", "set_ref", "set_ptr", "set_unique"}
    /\ last.old = "sptr"
    /\ \E U \in Declared \ {last.T} :
         /\ values[type_id(U)].kind = "value"
         /\ Valid(values[type_id(U)].p)
    /\ \E a \in Addr : heap[a].st = "dead" /\ heap[a].dtor = 1

====
